---- MODULE Spec2Model ----
(***************************************************************************)
(* Model of code.py: a MagTag clock.  main() connects to WiFi, fetches UTC *)
(* once over NTP, writes Central time to the RTC, builds the display and   *)
(* then loops forever: update_display_time(), time.sleep(60).              *)
(***************************************************************************)
EXTENDS Integers, Sequences, FiniteSets, TLC

(***************************************************************************)
(* Bounds of the model.                                                    *)
(***************************************************************************)
\* Years of the UTC instants the network time source may report.
MinYear == 2018
MaxYear == 2025
\* "Refresh too soon" answers the display gives to one update cycle at most.
MaxRetries == 3
\* Invocations of update_display_time that the model follows.
MaxCycles == 3

(***************************************************************************)
(* time.mktime and time.localtime.  CircuitPython keeps no time zone:      *)
(* mktime maps the calendar fields of a 9-tuple to seconds since           *)
(* 1970-01-01 (tm_wday, tm_yday and tm_isdst are ignored) and localtime is *)
(* its inverse, which recomputes tm_wday (Monday = 0) from the day count.  *)
(***************************************************************************)
SecondsPerDay == 24 * 3600

DaysFromCivil(year, month, day) ==
    LET y   == IF month <= 2 THEN year - 1 ELSE year
        era == y \div 400
        yoe == y - era * 400
        mp  == IF month > 2 THEN month - 3 ELSE month + 9
        doy == (153 * mp + 2) \div 5 + day - 1
        doe == yoe * 365 + yoe \div 4 - yoe \div 100 + doy
    IN  era * 146097 + doe - 719468

CivilFromDays(days) ==
    LET z   == days + 719468
        era == z \div 146097
        doe == z - era * 146097
        yoe == (doe - doe \div 1460 + doe \div 36524 - doe \div 146096) \div 365
        doy == doe - (365 * yoe + yoe \div 4 - yoe \div 100)
        mp  == (5 * doy + 2) \div 153
        d   == doy - (153 * mp + 2) \div 5 + 1
        m   == IF mp < 10 THEN mp + 3 ELSE mp - 9
        y   == yoe + era * 400 + (IF m <= 2 THEN 1 ELSE 0)
    IN  <<y, m, d>>

\* time.mktime(t) for a 9-tuple t = (year, mon, mday, hour, min, sec, wday, yday, isdst).
mktime(t) ==
    DaysFromCivil(t[1], t[2], t[3]) * SecondsPerDay + t[4] * 3600 + t[5] * 60 + t[6]

\* time.localtime(secs) as the record of the struct_time fields the program reads.
localtime(secs) ==
    LET days == secs \div SecondsPerDay
        rem  == secs % SecondsPerDay
        ymd  == CivilFromDays(days)
    IN  [tm_year |-> ymd[1], tm_mon |-> ymd[2], tm_mday |-> ymd[3],
         tm_hour |-> rem \div 3600, tm_min |-> (rem % 3600) \div 60,
         tm_sec  |-> rem % 60, tm_wday |-> (days + 3) % 7]

(***************************************************************************)
(* compute_yearday                                                         *)
(***************************************************************************)
RECURSIVE SumPrefix(_, _)
\* sum(s[:n])
SumPrefix(s, n) == IF n <= 0 THEN 0 ELSE s[n] + SumPrefix(s, n - 1)

month_days(year) ==
    LET base == <<31, 28, 31, 30, 31, 30, 31, 31, 30, 31, 30, 31>>
    IN  IF year % 4 = 0 /\ (year % 100 # 0 \/ year % 400 = 0)
        THEN [base EXCEPT ![2] = 29]
        ELSE base

compute_yearday(year, month, day) ==
    SumPrefix(month_days(year), month - 1) + day

(***************************************************************************)
(* is_dst                                                                  *)
(***************************************************************************)
\* 1 + ((6 - weekday) % 7): the first Sunday of a month whose 1st has that weekday.
first_sunday_of(weekday_of_first) == 1 + ((6 - weekday_of_first) % 7)

dst_start(year) ==
    LET march_first         == mktime(<<year, 3, 1, 0, 0, 0, 0, 0, 0>>)
        march_first_weekday == localtime(march_first).tm_wday
        first_sunday        == first_sunday_of(march_first_weekday)
        second_sunday       == first_sunday + 7
    IN  mktime(<<year, 3, second_sunday, 2, 0, 0, 0, 0, 0>>)

dst_end(year) ==
    LET november_first         == mktime(<<year, 11, 1, 0, 0, 0, 0, 0, 0>>)
        november_first_weekday == localtime(november_first).tm_wday
        first_sunday_nov       == first_sunday_of(november_first_weekday)
    IN  mktime(<<year, 11, first_sunday_nov, 2, 0, 0, 0, 0, 0>>)

\* is_dst with the end of the window included.
is_dst_closed_end(year, month, day, hour) ==
    LET current == mktime(<<year, month, day, hour, 0, 0, 0, 0, 0>>)
    IN  dst_start(year) <= current /\ current <= dst_end(year)

is_dst(year, month, day, hour) ==
    LET current == mktime(<<year, month, day, hour, 0, 0, 0, 0, 0>>)
    IN  dst_start(year) <= current /\ current < dst_end(year)

(***************************************************************************)
(* The arithmetic of setup_time: the offset and the 9-tuple for the RTC.   *)
(* ntp_time is (year, month, day, hour, minute, second, subsecond,         *)
(* weekday); Python's index 7 is element 8 here.                           *)
(***************************************************************************)
\* tz_offset_of with the two offsets exchanged.
tz_offset_swapped(ntp_time) ==
    IF is_dst(ntp_time[1], ntp_time[2], ntp_time[3], ntp_time[4])
    THEN -6 * 3600
    ELSE -5 * 3600

tz_offset_of(ntp_time) ==
    IF is_dst(ntp_time[1], ntp_time[2], ntp_time[3], ntp_time[4])
    THEN -5 * 3600
    ELSE -6 * 3600

adjusted_secs_of(ntp_time) ==
    mktime(<<ntp_time[1], ntp_time[2], ntp_time[3], ntp_time[4], ntp_time[5],
             ntp_time[6], ntp_time[8], 0, 0>>) + tz_offset_of(ntp_time)

rtc_tuple(ntp_time) ==
    LET adjusted_time == localtime(adjusted_secs_of(ntp_time))
    IN  <<adjusted_time.tm_year, adjusted_time.tm_mon, adjusted_time.tm_mday,
          adjusted_time.tm_hour, adjusted_time.tm_min, adjusted_time.tm_sec,
          adjusted_time.tm_wday,
          compute_yearday(adjusted_time.tm_year, adjusted_time.tm_mon,
                          adjusted_time.tm_mday),
          -1>>

(***************************************************************************)
(* The formatting of update_display_time.  A text is a sequence of         *)
(* one-character strings.                                                  *)
(***************************************************************************)
Digits == <<"0", "1", "2", "3", "4", "5", "6", "7", "8", "9">>

RECURSIVE Decimal(_)
\* str(n) for n >= 0
Decimal(n) == IF n < 10 THEN <<Digits[n + 1]>>
              ELSE Decimal(n \div 10) \o <<Digits[(n % 10) + 1]>>

\* "{:02d}".format(n) for n >= 0: padded with zeros to a width of at least 2.
Format02d(n) == IF Len(Decimal(n)) < 2 THEN <<"0">> \o Decimal(n) ELSE Decimal(n)

\* hours_12_of as a bare remainder, which shows noon and midnight as 0.
hours_12_mod(hours_24) == hours_24 % 12

hours_12_of(hours_24) ==
    IF hours_24 = 0 THEN 12
    ELSE IF hours_24 < 12 THEN hours_24
    ELSE IF hours_24 = 12 THEN 12
    ELSE hours_24 - 12

meridiem_of(hours_24) ==
    IF hours_24 = 0 THEN <<"A", "M">>
    ELSE IF hours_24 < 12 THEN <<"A", "M">>
    ELSE IF hours_24 = 12 THEN <<"P", "M">>
    ELSE <<"P", "M">>

\* "{:02d}:{:02d} {}".format(hours_12, minutes, meridiem)
current_time_str(hours_24, minutes) ==
    Format02d(hours_12_of(hours_24)) \o <<":">> \o Format02d(minutes)
        \o <<" ">> \o meridiem_of(hours_24)

TimePrefix == <<"T", "i", "m", "e", ":", " ">>

\* "Time: " + current_time_str
label_text(hours_24, minutes) == TimePrefix \o current_time_str(hours_24, minutes)

\* The placeholder create_display gives the time label: "Time: --:--".
Placeholder == TimePrefix \o <<"-", "-", ":", "-", "-">>

(***************************************************************************)
(* What the network time source reports: ntp.datetime, read as the 8-tuple *)
(* (year, month, day, hour, minute, second, subsecond, weekday), a valid   *)
(* UTC instant with the weekday of its date.  setup_time hands the last    *)
(* element to mktime, which ignores it.                                    *)
(***************************************************************************)
NtpTuple(y, m, d, h, mi, s) ==
    <<y, m, d, h, mi, s, 0, (DaysFromCivil(y, m, d) + 3) % 7>>

\* The instants followed through the whole of main: the two end-to-end
\* scenarios, a year rollover, a leap day, and the hours of both DST changes.
NtpSamples ==
    { NtpTuple(2024, 7, 15, 18, 30, 0),
      NtpTuple(2024, 1, 15, 18, 30, 0),
      NtpTuple(2024, 1, 1, 3, 59, 57),
      NtpTuple(2024, 3, 1, 5, 0, 58),
      NtpTuple(2024, 3, 10, 2, 0, 0),
      NtpTuple(2024, 11, 3, 1, 59, 59) }

\* The days of a month of the calendar.
DaysInMonth(y, m) ==
    IF m \in {4, 6, 9, 11} THEN 30
    ELSE IF m # 2 THEN 31
    ELSE IF y % 4 = 0 /\ (y % 100 # 0 \/ y % 400 = 0) THEN 29
    ELSE 28

(***************************************************************************)
(* State.                                                                  *)
(***************************************************************************)
VARIABLES
    pc,             \* where main is
    error,          \* the exception that left main, "none" while it runs
    ntpSource,      \* the UTC time the network source reports
    wifiConnects,   \* calls of wifi.radio.connect
    ntpFetches,     \* reads of ntp.datetime
    tz_offset,      \* setup_time's tz_offset, 0 before it is computed
    rtcDatetime,    \* the 9-tuple last assigned to rtc.RTC().datetime, <<>> if none
    rtcSecs,        \* the RTC's running time, as seconds since the epoch
    rtcWrites,      \* assignments to rtc.RTC().datetime
    rtcReads,       \* reads of rtc.RTC().datetime
    displayCreated, \* create_display was called
    labelText,      \* time_label.text, <<>> before the label exists
    shownText,      \* the time text on the panel since the last refresh
    now,            \* seconds slept since boot
    cycle,          \* invocations of update_display_time so far
    hours_24,       \* locals of the current invocation
    minutes,
    attempts,       \* display.refresh() calls of the current invocation
    transients,     \* "Refresh too soon" errors of the current invocation
    sleeps5,        \* time.sleep(5) calls of the current invocation
    invReads,       \* RTC reads of the current invocation
    invLabelWrites, \* assignments to time_label.text of the current invocation
    lastOutcome,    \* outcome of the last display.refresh() of the invocation
    startedAt,      \* now at the start of the current invocation
    prevStartedAt,  \* now at the start of the one before
    prevTransients, \* transients of the one before
    sleeps60        \* time.sleep(60) calls

startup == <<wifiConnects, ntpFetches, tz_offset>>
rtcVars == <<rtcDatetime, rtcSecs, rtcWrites, rtcReads>>
dispVars == <<displayCreated, labelText, shownText>>
invLocals == <<hours_24, minutes, invReads, invLabelWrites>>
retryVars == <<attempts, transients, sleeps5, lastOutcome>>
periodVars == <<cycle, startedAt, prevStartedAt, prevTransients, sleeps60>>

vars == <<pc, error, ntpSource, startup, rtcVars, dispVars, now, invLocals,
          retryVars, periodVars>>

\* The RTC's time before anything sets it: CircuitPython starts it at 2000-01-01.
RtcPowerOn == mktime(<<2000, 1, 1, 0, 0, 0, 0, 0, 0>>)

\* The state when main() is entered, the network source reporting ntp_time.
InitWith(ntp_time) ==
    /\ pc = "connect_wifi"
    /\ error = "none"
    /\ ntpSource = ntp_time
    /\ wifiConnects = 0
    /\ ntpFetches = 0
    /\ tz_offset = 0
    /\ rtcDatetime = <<>>
    /\ rtcSecs = RtcPowerOn
    /\ rtcWrites = 0
    /\ rtcReads = 0
    /\ displayCreated = FALSE
    /\ labelText = <<>>
    /\ shownText = <<>>
    /\ now = 0
    /\ cycle = 0
    /\ hours_24 = 0
    /\ minutes = 0
    /\ attempts = 0
    /\ transients = 0
    /\ sleeps5 = 0
    /\ invReads = 0
    /\ invLabelWrites = 0
    /\ lastOutcome = "none"
    /\ startedAt = 0
    /\ prevStartedAt = 0
    /\ prevTransients = 0
    /\ sleeps60 = 0

Init == \E t \in NtpSamples : InitWith(t)

(***************************************************************************)
(* Startup: connect_wifi, setup_time, create_display.  Nothing in main     *)
(* catches an exception of these calls.                                    *)
(***************************************************************************)
\* An uncaught exception leaves main.
Raise(what) ==
    /\ pc' = "raised"
    /\ error' = what

ConnectWifi ==
    /\ pc = "connect_wifi"
    /\ wifiConnects' = wifiConnects + 1
    /\ pc' = "setup_time"
    /\ UNCHANGED <<error, ntpSource, ntpFetches, tz_offset, rtcVars, dispVars,
                   now, invLocals, retryVars, periodVars>>

\* wifi.radio.connect raises.
ConnectWifiFail ==
    /\ pc = "connect_wifi"
    /\ wifiConnects' = wifiConnects + 1
    /\ Raise("connect_wifi")
    /\ UNCHANGED <<ntpSource, ntpFetches, tz_offset, rtcVars, dispVars, now,
                   invLocals, retryVars, periodVars>>

\* SetupTime without the assignment to rtc.RTC().datetime.
SetupTimeNoWrite ==
    /\ pc = "setup_time"
    /\ ntpFetches' = ntpFetches + 1
    /\ tz_offset' = tz_offset_of(ntpSource)
    /\ pc' = "create_display"
    /\ UNCHANGED <<error, ntpSource, wifiConnects, rtcVars, dispVars, now,
                   invLocals, retryVars, periodVars>>

\* setup_time, every call succeeding.
SetupTime ==
    /\ pc = "setup_time"
    /\ ntpFetches' = ntpFetches + 1
    /\ tz_offset' = tz_offset_of(ntpSource)
    /\ rtcDatetime' = rtc_tuple(ntpSource)
    /\ rtcSecs' = mktime(rtc_tuple(ntpSource))
    /\ rtcWrites' = rtcWrites + 1
    /\ pc' = "create_display"
    /\ UNCHANGED <<error, ntpSource, wifiConnects, rtcReads, dispVars, now,
                   invLocals, retryVars, periodVars>>

\* NtpFetchFail with the exception caught and setup_time started again.
NtpFetchRetried ==
    /\ pc = "setup_time"
    /\ ntpFetches < 3
    /\ ntpFetches' = ntpFetches + 1
    /\ UNCHANGED <<pc, error, ntpSource, wifiConnects, tz_offset, rtcVars,
                   dispVars, now, invLocals, retryVars, periodVars>>

\* setup_time, ntp.datetime raising (the time source cannot be reached).
NtpFetchFail ==
    /\ pc = "setup_time"
    /\ ntpFetches' = ntpFetches + 1
    /\ Raise("ntp")
    /\ UNCHANGED <<ntpSource, wifiConnects, tz_offset, rtcVars, dispVars, now,
                   invLocals, retryVars, periodVars>>

\* setup_time, the assignment to rtc.RTC().datetime raising.
RtcWriteFail ==
    /\ pc = "setup_time"
    /\ ntpFetches' = ntpFetches + 1
    /\ tz_offset' = tz_offset_of(ntpSource)
    /\ Raise("rtc_write")
    /\ UNCHANGED <<ntpSource, wifiConnects, rtcVars, dispVars, now, invLocals,
                   retryVars, periodVars>>

\* create_display: the label gets its placeholder and the panel is refreshed.
CreateDisplay ==
    /\ pc = "create_display"
    /\ displayCreated' = TRUE
    /\ labelText' = Placeholder
    /\ shownText' = Placeholder
    /\ pc' = "update_display_time"
    /\ UNCHANGED <<error, ntpSource, startup, rtcVars, now, invLocals,
                   retryVars, periodVars>>

\* create_display, its display.refresh() raising: nothing catches it there.
CreateDisplayFail ==
    /\ pc = "create_display"
    /\ displayCreated' = TRUE
    /\ labelText' = Placeholder
    /\ Raise("create_display")
    /\ UNCHANGED <<ntpSource, startup, rtcVars, shownText, now, invLocals,
                   retryVars, periodVars>>

(***************************************************************************)
(* update_display_time and the loop of main.                               *)
(***************************************************************************)
\* Lines 140-162: read the RTC, format, assign the label, enter the retry loop.
UpdateDisplayTime ==
    /\ pc = "update_display_time"
    /\ cycle < MaxCycles
    /\ LET current_datetime == localtime(rtcSecs)
       IN  /\ hours_24' = current_datetime.tm_hour
           /\ minutes' = current_datetime.tm_min
           /\ labelText' = label_text(current_datetime.tm_hour,
                                      current_datetime.tm_min)
    /\ rtcReads' = rtcReads + 1
    /\ invReads' = 1
    /\ invLabelWrites' = 1
    /\ attempts' = 0
    /\ transients' = 0
    /\ sleeps5' = 0
    /\ lastOutcome' = "none"
    /\ cycle' = cycle + 1
    /\ prevStartedAt' = startedAt
    /\ prevTransients' = transients
    /\ startedAt' = now
    /\ pc' = "refresh"
    /\ UNCHANGED <<error, ntpSource, startup, rtcDatetime, rtcSecs, rtcWrites,
                   displayCreated, shownText, now, sleeps60>>

\* display.refresh() succeeds: refreshed = True, the loop and the function end.
RefreshOk ==
    /\ pc = "refresh"
    /\ attempts' = attempts + 1
    /\ lastOutcome' = "ok"
    /\ shownText' = labelText
    /\ pc' = "sleep60"
    /\ UNCHANGED <<error, ntpSource, startup, rtcVars, displayCreated,
                   labelText, now, invLocals, transients, sleeps5, periodVars>>

\* RefreshTooSoon with a limit of two retries, after which the error is raised.
RefreshTooSoonEscalates ==
    /\ pc = "refresh"
    /\ transients < MaxRetries
    /\ attempts' = attempts + 1
    /\ transients' = transients + 1
    /\ lastOutcome' = "too_soon"
    /\ IF transients >= 2
       THEN Raise("refresh")
       ELSE pc' = "retry_wait" /\ error' = error
    /\ UNCHANGED <<ntpSource, startup, rtcVars, dispVars, now, invLocals,
                   sleeps5, periodVars>>

\* display.refresh() raises RuntimeError("Refresh too soon"): caught.
RefreshTooSoon ==
    /\ pc = "refresh"
    /\ transients < MaxRetries
    /\ attempts' = attempts + 1
    /\ transients' = transients + 1
    /\ lastOutcome' = "too_soon"
    /\ pc' = "retry_wait"
    /\ UNCHANGED <<error, ntpSource, startup, rtcVars, dispVars, now,
                   invLocals, sleeps5, periodVars>>

\* RetrySleep without the time.sleep(5): the refresh is tried again at once.
RetryNoSleep ==
    /\ pc = "retry_wait"
    /\ pc' = "refresh"
    /\ UNCHANGED <<error, ntpSource, startup, rtcVars, dispVars, now,
                   invLocals, retryVars, periodVars>>

\* RetrySleep with the RTC read and the label assigned again on every retry.
RetrySleepRereads ==
    /\ pc = "retry_wait"
    /\ sleeps5' = sleeps5 + 1
    /\ now' = now + 5
    /\ rtcSecs' = rtcSecs + 5
    /\ LET current_datetime == localtime(rtcSecs + 5)
       IN  /\ hours_24' = current_datetime.tm_hour
           /\ minutes' = current_datetime.tm_min
           /\ labelText' = label_text(current_datetime.tm_hour,
                                      current_datetime.tm_min)
    /\ rtcReads' = rtcReads + 1
    /\ invReads' = invReads + 1
    /\ invLabelWrites' = invLabelWrites + 1
    /\ pc' = "refresh"
    /\ UNCHANGED <<error, ntpSource, startup, rtcDatetime, rtcWrites,
                   displayCreated, shownText, attempts, transients,
                   lastOutcome, periodVars>>

\* time.sleep(5) in the handler, then the loop tests `not refreshed` again.
RetrySleep ==
    /\ pc = "retry_wait"
    /\ sleeps5' = sleeps5 + 1
    /\ now' = now + 5
    /\ rtcSecs' = rtcSecs + 5
    /\ pc' = "refresh"
    /\ UNCHANGED <<error, ntpSource, startup, rtcDatetime, rtcWrites, rtcReads,
                   dispVars, invLocals, attempts, transients, lastOutcome,
                   periodVars>>

\* RefreshFatal with every RuntimeError handled like "Refresh too soon".
RefreshFatalSwallowed ==
    /\ pc = "refresh"
    /\ attempts' = attempts + 1
    /\ lastOutcome' = "other"
    /\ pc' = "retry_wait"
    /\ UNCHANGED <<error, ntpSource, startup, rtcVars, dispVars, now,
                   invLocals, transients, sleeps5, periodVars>>

\* display.refresh() raises any other RuntimeError: `raise e`.
RefreshFatal ==
    /\ pc = "refresh"
    /\ attempts' = attempts + 1
    /\ lastOutcome' = "other"
    /\ Raise("refresh")
    /\ UNCHANGED <<ntpSource, startup, rtcVars, dispVars, now, invLocals,
                   transients, sleeps5, periodVars>>

\* Sleep60 sleeping 6 seconds.
Sleep6 ==
    /\ pc = "sleep60"
    /\ sleeps60' = sleeps60 + 1
    /\ now' = now + 6
    /\ rtcSecs' = rtcSecs + 6
    /\ pc' = "update_display_time"
    /\ UNCHANGED <<error, ntpSource, startup, rtcDatetime, rtcWrites, rtcReads,
                   dispVars, invLocals, retryVars, cycle, startedAt,
                   prevStartedAt, prevTransients>>

\* time.sleep(60) of main's loop, then the next iteration.
Sleep60 ==
    /\ pc = "sleep60"
    /\ sleeps60' = sleeps60 + 1
    /\ now' = now + 60
    /\ rtcSecs' = rtcSecs + 60
    /\ pc' = "update_display_time"
    /\ UNCHANGED <<error, ntpSource, startup, rtcDatetime, rtcWrites, rtcReads,
                   dispVars, invLocals, retryVars, cycle, startedAt,
                   prevStartedAt, prevTransients>>

Next ==
    \/ ConnectWifi
    \/ ConnectWifiFail
    \/ SetupTime
    \/ NtpFetchFail
    \/ RtcWriteFail
    \/ CreateDisplay
    \/ CreateDisplayFail
    \/ UpdateDisplayTime
    \/ RefreshOk
    \/ RefreshTooSoon
    \/ RetrySleep
    \/ RefreshFatal
    \/ Sleep60

Spec == Init /\ [][Next]_vars

\* main with no call failing for good: the only error is "Refresh too soon",
\* which the display gives at most MaxRetries times in a row.
LiveNext ==
    \/ ConnectWifi
    \/ SetupTime
    \/ CreateDisplay
    \/ UpdateDisplayTime
    \/ RefreshOk
    \/ RefreshTooSoon
    \/ RetrySleep
    \/ Sleep60

\* Once in the periodic loop the interpreter always takes the program's next
\* step (a sleep ends, the next statement runs), and a display whose refresh
\* is asked for again and again grants it in the end.
LiveSpec ==
    /\ Init
    /\ [][LiveNext]_vars
    /\ WF_vars(UpdateDisplayTime)
    /\ WF_vars(RetrySleep)
    /\ WF_vars(Sleep60)
    /\ SF_vars(RefreshOk)

\* The minute and second of the instants: the first second of an hour, its
\* half and its last second.
MinuteSeconds == {<<0, 0>>, <<30, 0>>, <<59, 59>>}

\* setup_time on every hour of every day of the years MinYear..MaxYear.
SyncInit ==
    \E y \in MinYear..MaxYear, m \in 1..12, h \in 0..23, ms \in MinuteSeconds :
        \E d \in 1..DaysInMonth(y, m) :
            InitWith(NtpTuple(y, m, d, h, ms[1], ms[2]))
SyncNext == ConnectWifi \/ SetupTime
SyncSpec == SyncInit /\ [][SyncNext]_vars

\* The first update of the label, on every hour and minute of a day.
FormatInit ==
    \E h \in 0..23, mi \in 0..59 : InitWith(NtpTuple(2024, 1, 15, h, mi, 0))
FormatNext == ConnectWifi \/ SetupTime \/ CreateDisplay \/ UpdateDisplayTime
FormatSpec == FormatInit /\ [][FormatNext]_vars

(***************************************************************************)
(* The retry loop of update_display_time (checked under Spec).             *)
(***************************************************************************)
\* C1: an invocation whose refreshes fail k times with "Refresh too soon" and
\* then succeed makes k+1 refresh attempts and k sleeps of 5 seconds, one
\* after each failure and before the next attempt, and returns without raising.
C1_RetryCounts ==
    /\ pc = "refresh" => attempts = transients /\ sleeps5 = transients
    /\ pc = "retry_wait" =>
           /\ lastOutcome = "too_soon"
           /\ attempts = transients
           /\ sleeps5 = transients - 1
    /\ pc = "sleep60" =>
           /\ lastOutcome = "ok"
           /\ error = "none"
           /\ attempts = transients + 1
           /\ sleeps5 = transients
           /\ now - startedAt = 5 * transients

C1_Witness ==
    /\ pc = "sleep60"
    /\ transients = 2
    /\ attempts = 3
    /\ sleeps5 = 2
    /\ now - startedAt = 10

\* C2: a refresh that fails with another error than "Refresh too soon", on the
\* first attempt or after retries, is raised at once: no sleep of 5 seconds
\* and no refresh attempt follows it, main ends with that error, and no later
\* update cycle or sleep of 60 seconds runs.
C2_FatalRaisedAtOnce ==
    /\ [](lastOutcome = "other" =>
            /\ pc = "raised"
            /\ error = "refresh"
            /\ attempts = transients + 1
            /\ sleeps5 = transients
            /\ now = startedAt + 5 * transients
            /\ sleeps60 = cycle - 1)
    /\ [][pc = "raised" => UNCHANGED vars]_vars

C2_Witness ==
    /\ lastOutcome = "other"
    /\ pc = "raised"
    /\ transients = 2
    /\ cycle = 2

\* C3 (under LiveSpec: no call fails for good and the display answers
\* "Refresh too soon" at most MaxRetries times in a row): the transient error
\* is never escalated, every invocation of update_display_time returns, and
\* main reaches its next sleep of 60 seconds.
C3_EveryUpdateReturns ==
    /\ [](error = "none")
    /\ (pc \in {"refresh", "retry_wait"}) ~> (pc = "sleep60")

C3_Witness ==
    /\ pc = "sleep60"
    /\ transients = MaxRetries
    /\ cycle = 2

(***************************************************************************)
(* The RTC (checked under Spec).                                           *)
(***************************************************************************)
\* C4 as stated: every run of main writes the RTC exactly once, so a run that
\* has ended has written it once.
C4_WrittenExactlyOnceInEveryRun ==
    pc = "raised" => rtcWrites = 1

\* C4, amended: the RTC is written at most once, by setup_time, and exactly
\* once in every run that gets past setup_time; the write comes before the
\* first read of update_display_time, and in the periodic loop, retries
\* included, the RTC is only read: it holds the written time plus the time
\* slept since.
C4_WrittenOnceBeforeLoop ==
    /\ rtcWrites <= 1
    /\ pc \in {"create_display", "update_display_time", "refresh",
               "retry_wait", "sleep60"} => rtcWrites = 1
    /\ error \in {"create_display", "refresh"} => rtcWrites = 1
    /\ rtcReads > 0 => rtcWrites = 1
    /\ rtcWrites = 0 => rtcDatetime = <<>> /\ rtcSecs = RtcPowerOn
    /\ rtcWrites = 1 =>
           /\ rtcDatetime = rtc_tuple(ntpSource)
           /\ rtcSecs = mktime(rtcDatetime) + now

C4_Witness ==
    /\ pc = "retry_wait"
    /\ cycle = MaxCycles
    /\ rtcReads = MaxCycles
    /\ rtcWrites = 1

\* C8: a failure of the network connect, of the one UTC fetch or of the RTC
\* write is neither retried nor swallowed: main ends with it, the time is
\* fetched at most once, the display is never created and the periodic loop
\* is never entered.
C8_StartupFailureIsFatal ==
    /\ wifiConnects <= 1
    /\ ntpFetches <= 1
    /\ error \in {"connect_wifi", "ntp", "rtc_write"} =>
           /\ pc = "raised"
           /\ ~displayCreated
           /\ labelText = <<>>
           /\ rtcWrites = 0
           /\ rtcReads = 0
           /\ cycle = 0
           /\ attempts = 0
           /\ sleeps60 = 0
    /\ error = "connect_wifi" => ntpFetches = 0
    /\ pc = "setup_time" => error = "none" /\ wifiConnects = 1 /\ ntpFetches = 0
    /\ displayCreated \/ cycle > 0 =>
           wifiConnects = 1 /\ ntpFetches = 1 /\ rtcWrites = 1

C8_Witness ==
    /\ pc = "raised"
    /\ error = "rtc_write"
    /\ ntpFetches = 1
    /\ ~displayCreated

(***************************************************************************)
(* The period of the loop (checked under Spec).  Time is the time slept.   *)
(***************************************************************************)
\* C9 as stated: consecutive invocations of update_display_time start 60
\* seconds apart.
C9_StartsSixtyApart ==
    cycle >= 2 => startedAt - prevStartedAt = 60

\* C9, amended: consecutive invocations start 60 seconds plus 5 seconds for
\* each "Refresh too soon" of the earlier one apart, and main's loop never
\* ends normally: in the loop there is always a next step, and main is left
\* only by the error of a refresh.
C9_StartsSixtyPlusRetriesApart ==
    /\ cycle >= 2 => startedAt - prevStartedAt = 60 + 5 * prevTransients
    /\ pc \in {"refresh", "retry_wait", "sleep60"} => ENABLED Next
    /\ pc = "update_display_time" /\ cycle < MaxCycles => ENABLED UpdateDisplayTime
    /\ cycle >= 1 /\ pc = "raised" => error = "refresh" /\ lastOutcome = "other"
    /\ cycle >= 1 => sleeps60 \in {cycle - 1, cycle}

C9_Witness ==
    /\ cycle = 3
    /\ prevTransients = 2
    /\ startedAt - prevStartedAt = 70

\* C10: an invocation of update_display_time reads the RTC once and assigns
\* the label once, both before its first refresh attempt; retries leave the
\* label alone and do not read the RTC again, so the text refreshed onto the
\* panel is the time read when the cycle started.
C10_ReadOncePerCycle ==
    pc \in {"refresh", "retry_wait", "sleep60"} =>
        LET atStart == localtime(rtcSecs - (now - startedAt))
        IN  /\ invReads = 1
            /\ invLabelWrites = 1
            /\ rtcReads = cycle
            /\ hours_24 = atStart.tm_hour
            /\ minutes = atStart.tm_min
            /\ labelText = label_text(atStart.tm_hour, atStart.tm_min)
            /\ pc = "sleep60" => shownText = labelText

\* A refresh that succeeds after retries and shows a minute that has passed.
C10_Witness ==
    /\ pc = "sleep60"
    /\ transients >= 1
    /\ invReads = 1
    /\ shownText # label_text(localtime(rtcSecs).tm_hour, localtime(rtcSecs).tm_min)

(***************************************************************************)
(* The calendar, told without mktime and localtime: the weekday by         *)
(* Sakamoto's rule (0 = Sunday) and instants compared field by field.      *)
(***************************************************************************)
MonthKeys == <<0, 3, 2, 5, 0, 3, 5, 1, 4, 6, 2, 4>>

DayOfWeek(y, m, d) ==
    LET yy == IF m < 3 THEN y - 1 ELSE y
    IN  (yy + yy \div 4 - yy \div 100 + yy \div 400 + MonthKeys[m] + d) % 7

\* The day of the month of the n-th Sunday of month m of year y.
NthSunday(y, m, n) ==
    CHOOSE d \in (7 * n - 6)..(7 * n) : DayOfWeek(y, m, d) = 0

\* <<month, day, hour>> a is before b.
Before(a, b) ==
    \/ a[1] < b[1]
    \/ a[1] = b[1] /\ a[2] < b[2]
    \/ a[1] = b[1] /\ a[2] = b[2] /\ a[3] < b[3]

\* 02:00 on the second Sunday of March <= (month, day, hour)
\*                                     <  02:00 on the first Sunday of November
InDstWindow(y, m, d, h) ==
    /\ ~Before(<<m, d, h>>, <<3, NthSunday(y, 3, 2), 2>>)
    /\ Before(<<m, d, h>>, <<11, NthSunday(y, 11, 1), 2>>)

(***************************************************************************)
(* is_dst and setup_time (checked under SyncSpec).                         *)
(***************************************************************************)
\* C5: is_dst(year, month, day, hour) is true iff the instant is at or after
\* 02:00 on the second Sunday of March and before 02:00 on the first Sunday of
\* November of that year; setup_time takes -5 hours exactly then.
C5_DstWindow ==
    LET y == ntpSource[1]
        m == ntpSource[2]
        d == ntpSource[3]
        h == ntpSource[4]
    IN  pc = "create_display" =>
            /\ is_dst(y, m, d, h) <=> InDstWindow(y, m, d, h)
            /\ tz_offset = IF InDstWindow(y, m, d, h) THEN -5 * 3600 ELSE -6 * 3600

\* setup_time has run on the very hour DST starts, 2024-03-10 02:00.
C5_Witness ==
    /\ pc = "create_display"
    /\ <<ntpSource[1], ntpSource[2], ntpSource[3], ntpSource[4]>> = <<2024, 3, 10, 2>>
    /\ is_dst(2024, 3, 10, 2)
    /\ ~is_dst(2024, 3, 10, 1)
    /\ tz_offset = -5 * 3600

\* The local calendar fields of the UTC fields t, off hours earlier, borrowing
\* from the day, the month and the year by hand.
HoursEarlier(t, off) ==
    LET y == t[1]
        m == t[2]
        d == t[3]
        date == IF t[4] >= off THEN <<y, m, d>>
                ELSE IF d > 1 THEN <<y, m, d - 1>>
                ELSE IF m > 1 THEN <<y, m - 1, DaysInMonth(y, m - 1)>>
                ELSE <<y - 1, 12, 31>>
        hour == IF t[4] >= off THEN t[4] - off ELSE t[4] - off + 24
    IN  <<date[1], date[2], date[3], hour, t[5], t[6],
          (DayOfWeek(date[1], date[2], date[3]) + 6) % 7,
          DaysFromCivil(date[1], date[2], date[3]) - DaysFromCivil(date[1], 1, 1) + 1,
          -1>>

\* C6: the tuple setup_time writes to the RTC is the UTC instant moved back by
\* 5 hours if is_dst holds of the UTC year, month, day and hour and by 6 hours
\* otherwise: year, month, day and weekday follow any rollover, the yearday is
\* the 1-based day of the year of the local date, and the DST flag is -1.
C6_RtcIsUtcPlusOffset ==
    pc = "create_display" =>
        /\ rtcDatetime =
               HoursEarlier(ntpSource,
                            IF is_dst(ntpSource[1], ntpSource[2], ntpSource[3],
                                      ntpSource[4])
                            THEN 5 ELSE 6)
        /\ rtcSecs = mktime(ntpSource) + tz_offset
        /\ tz_offset \in {-5 * 3600, -6 * 3600}

\* setup_time has written the last day of the year before the UTC year.
C6_Witness ==
    /\ pc = "create_display"
    /\ <<ntpSource[1], ntpSource[2], ntpSource[3], ntpSource[4]>> = <<2024, 1, 1, 3>>
    /\ rtcDatetime[1] = 2023
    /\ rtcDatetime[2] = 12
    /\ rtcDatetime[3] = 31
    /\ rtcDatetime[4] = 21
    /\ rtcDatetime[8] = 365

(***************************************************************************)
(* The time text (checked under FormatSpec).                               *)
(***************************************************************************)
DigitValue(c) == CHOOSE i \in 0..9 : Digits[i + 1] = c

IsDigit(c) == \E i \in 0..9 : Digits[i + 1] = c

\* C7: for every RTC hour h in 0..23 and minute m in 0..59 the time text is
\* HH:MM AM|PM with two digits each for hour and minute; the hour shown is 12
\* for h = 0 (AM) and h = 12 (PM), h for 1..11 (AM), h - 12 for 13..23 (PM),
\* always in 1..12, and the minute shown is m.
C7_TwelveHourText ==
    pc = "refresh" =>
        LET h     == localtime(rtcSecs).tm_hour
            m     == localtime(rtcSecs).tm_min
            text  == SubSeq(labelText, Len(TimePrefix) + 1, Len(labelText))
            shown == 10 * DigitValue(text[1]) + DigitValue(text[2])
        IN  /\ SubSeq(labelText, 1, Len(TimePrefix)) = TimePrefix
            /\ Len(text) = 8
            /\ \A i \in {1, 2, 4, 5} : IsDigit(text[i])
            /\ text[3] = ":"
            /\ text[6] = " "
            /\ text[7] = (IF h < 12 THEN "A" ELSE "P")
            /\ text[8] = "M"
            /\ shown \in 1..12
            /\ shown = (IF h = 0 THEN 12 ELSE IF h <= 12 THEN h ELSE h - 12)
            /\ 10 * DigitValue(text[4]) + DigitValue(text[5]) = m

\* The label of 23:05, "Time: 11:05 PM".
C7_Witness ==
    /\ pc = "refresh"
    /\ localtime(rtcSecs).tm_hour = 23
    /\ localtime(rtcSecs).tm_min = 5
    /\ labelText = <<"T", "i", "m", "e", ":", " ", "1", "1", ":", "0", "5", " ", "P", "M">>
====
